---- MODULE Spec2Model ----
(***************************************************************************)
(* Wordy: DictionaryManager (src/dictionary_manager.py) over its SQLite    *)
(* store, and the worker threads of src/main.py that share one manager.    *)
(*                                                                         *)
(* Text (words, definitions, queries, file names, decoder messages) is a   *)
(* sequence of one-character strings, so that strip(), lower(), LIKE,      *)
(* replace() and Path.stem are computed character by character.            *)
(***************************************************************************)
EXTENDS Integers, Sequences, FiniteSets, TLC

VARIABLES
    dictionaries,     \* table dictionaries: set of rows
    seq_dictionaries, \* sqlite_sequence of dictionaries (AUTOINCREMENT)
    entries,          \* table entries: rows in rowid order
    search_history,   \* table search_history: rows in rowid order
    favorites,        \* table favorites: rows in rowid order
    current_dict_id,  \* DictionaryManager.current_dict_id
    fs,               \* file names present in the sources directory
    clock,            \* CURRENT_TIMESTAMP, in seconds
    last,             \* the call that ended last: its name, arguments, result
    workers,          \* ImportWorker threads: position and locals of each
    tx                \* the open write transaction: owner and working copy

vars == <<dictionaries, seq_dictionaries, entries, search_history, favorites,
          current_dict_id, fs, clock, last, workers, tx>>

store == <<dictionaries, seq_dictionaries, entries, search_history, favorites>>

-----------------------------------------------------------------------------
(* Bounds of the model *)

MaxDictId == 2      \* ids the AUTOINCREMENT sequence may hand out
MaxLimit == 3       \* largest LIMIT argument enumerated
MaxQueryLen == 2    \* longest query enumerated
MaxFavorites == 3   \* favorites rows a run may hold
MaxHistory == 2     \* history rows a run of Spec may hold
MaxClock == 1       \* seconds the clock may advance
MaxChunks == 3      \* chunks a sniffed header is made of
MaxScanIds == 7     \* ids the sequence may have given out when a scan has ended

(* Program constants *)

NULL == 0             \* None / SQL NULL; rowids start at 1
HISTORY_LIMIT == 100  \* ... ORDER BY searched_at DESC LIMIT 100
HEADER_LEN == 32      \* f.read(32)
BOM_WINDOW == 4       \* header[:4]

-----------------------------------------------------------------------------
(* Text *)

Min(a, b) == IF a < b THEN a ELSE b

\* ord(c) of the characters the model uses
Code(c) ==
    CASE c = " " -> 32 [] c = "%" -> 37 [] c = "-" -> 45 [] c = "." -> 46
      [] c = "A" -> 65 [] c = "B" -> 66 [] c = "D" -> 68 [] c = "G" -> 71
      [] c = "L" -> 76 [] c = "M" -> 77 [] c = "R" -> 82 [] c = "_" -> 95
      [] c = "a" -> 97 [] c = "b" -> 98 [] c = "d" -> 100 [] c = "g" -> 103
      [] c = "l" -> 108 [] c = "m" -> 109 [] c = "r" -> 114 [] c = "t" -> 116
      [] c = "x" -> 120 [] c = "y" -> 121 [] c = "z" -> 122

\* str.lower() / SQL LOWER() of one character
LowerChar(c) ==
    CASE c = "A" -> "a" [] c = "B" -> "b" [] c = "D" -> "d" [] c = "G" -> "g"
      [] c = "L" -> "l" [] c = "M" -> "m" [] c = "R" -> "r" [] OTHER -> c

Lower(s) == [i \in 1..Len(s) |-> LowerChar(s[i])]

IsSpace(c) == c = " "

RECURSIVE LStrip(_)
LStrip(s) == IF s # <<>> /\ IsSpace(Head(s)) THEN LStrip(Tail(s)) ELSE s

RECURSIVE RStrip(_)
RStrip(s) ==
    IF s # <<>> /\ IsSpace(s[Len(s)]) THEN RStrip(SubSeq(s, 1, Len(s) - 1)) ELSE s

\* str.strip()
Strip(s) == RStrip(LStrip(s))

\* s.startswith(p)
StartsWith(s, p) == Len(p) <= Len(s) /\ SubSeq(s, 1, Len(p)) = p

\* s.endswith(p)
EndsWith(s, p) == Len(p) <= Len(s) /\ SubSeq(s, Len(s) - Len(p) + 1, Len(s)) = p

\* p in s (substring / sub-bytes)
Contains(s, p) ==
    \E i \in 0..(Len(s) - Len(p)) : SubSeq(s, i + 1, i + Len(p)) = p

\* s.replace(old, new) for a single character old
ReplaceChar(s, old, new) == [i \in 1..Len(s) |-> IF s[i] = old THEN new ELSE s[i]]

\* byte order of two texts: a < b
RECURSIVE TextLess(_, _)
TextLess(a, b) ==
    IF b = <<>> THEN FALSE
    ELSE IF a = <<>> THEN TRUE
    ELSE IF Code(Head(a)) # Code(Head(b)) THEN Code(Head(a)) < Code(Head(b))
    ELSE TextLess(Tail(a), Tail(b))

TextLeq(a, b) == a = b \/ TextLess(a, b)

-----------------------------------------------------------------------------
(* SQL pieces used by the queries *)

\* a = b in SQL: never true when either side is NULL
SqlEq(a, b) == a # NULL /\ b # NULL /\ a = b

\* text LIKE pat: % is any run, _ is any one character, ASCII case folded,
\* and no ESCAPE clause
RECURSIVE Like(_, _)
Like(s, pat) ==
    IF pat = <<>> THEN s = <<>>
    ELSE IF Head(pat) = "%"
         THEN \E k \in 0..Len(s) : Like(SubSeq(s, k + 1, Len(s)), Tail(pat))
    ELSE /\ s # <<>>
         /\ (Head(pat) = "_" \/ LowerChar(Head(pat)) = LowerChar(Head(s)))
         /\ Like(Tail(s), Tail(pat))

\* rows that LIMIT n lets through out of total: a negative n is no limit
LimitCount(total, n) == IF n < 0 THEN total ELSE Min(n, total)

Limit(s, n) == SubSeq(s, 1, LimitCount(Len(s), n))

\* ORDER BY word over rows met in rowid order (idx_dict_word holds
\* (dictionary_id, word, rowid), so equal words keep their rowid order)
RECURSIVE InsertByWord(_, _)
InsertByWord(r, s) ==
    IF s = <<>> THEN <<r>>
    ELSE IF TextLess(r.word, Head(s).word) THEN <<r>> \o s
    ELSE <<Head(s)>> \o InsertByWord(r, Tail(s))

RECURSIVE OrderByWord(_)
OrderByWord(s) ==
    IF s = <<>> THEN <<>>
    ELSE InsertByWord(s[Len(s)], OrderByWord(SubSeq(s, 1, Len(s) - 1)))

\* SELECT DISTINCT over an ordered column: the first of each run
RECURSIVE Distinct(_)
Distinct(s) ==
    IF Len(s) <= 1 THEN s
    ELSE IF s[1] = s[2] THEN Distinct(Tail(s))
    ELSE <<s[1]>> \o Distinct(Tail(s))

\* WHERE dictionary_id = ? AND LOWER(word) LIKE ?
MatchWhere(r, dict_id, pattern) ==
    SqlEq(r.dictionary_id, dict_id) /\ Like(Lower(r.word), pattern)

MatchingRows(ents, dict_id, pattern) ==
    LET Test(r) == MatchWhere(r, dict_id, pattern) IN SelectSeq(ents, Test)

\* search that falls back to every dictionary while none is active
SearchAnyDictionary(ents, cur, query, limit) ==
    IF Strip(query) = <<>> THEN <<>>
    ELSE LET q == Lower(Strip(query))
             Test(r) == (cur = NULL \/ SqlEq(r.dictionary_id, cur))
                        /\ Like(Lower(r.word), q \o <<"%">>)
             rows == Limit(OrderByWord(SelectSeq(ents, Test)), limit)
         IN [i \in 1..Len(rows) |-> <<rows[i].word, rows[i].definition>>]

\* DictionaryManager.search over given tables and pointer
SearchIn(ents, cur, query, limit) ==
    IF cur = NULL \/ Strip(query) = <<>> THEN <<>>
    ELSE LET q == Lower(Strip(query))
             rows == Limit(OrderByWord(MatchingRows(ents, cur, q \o <<"%">>)), limit)
         IN [i \in 1..Len(rows) |-> <<rows[i].word, rows[i].definition>>]

search(query, limit) == SearchIn(entries, current_dict_id, query, limit)

\* suggestions that keep one word per matching pair
SuggestionsPerPair(ents, cur, prefix, limit) ==
    IF cur = NULL \/ Strip(prefix) = <<>> THEN <<>>
    ELSE LET p == Lower(Strip(prefix))
             rows == OrderByWord(MatchingRows(ents, cur, p \o <<"%">>))
             words == [i \in 1..Len(rows) |-> rows[i].word]
         IN Limit(words, limit)

\* DictionaryManager.get_suggestions over given tables and pointer
SuggestionsIn(ents, cur, prefix, limit) ==
    IF cur = NULL \/ Strip(prefix) = <<>> THEN <<>>
    ELSE LET p == Lower(Strip(prefix))
             rows == OrderByWord(MatchingRows(ents, cur, p \o <<"%">>))
             words == [i \in 1..Len(rows) |-> rows[i].word]
         IN Limit(Distinct(words), limit)

get_suggestions(prefix, limit) ==
    SuggestionsIn(entries, current_dict_id, prefix, limit)

-----------------------------------------------------------------------------
(* Format sniffer *)

SIG_CLEAR_A == <<0, 1>>
SIG_CLEAR_B == <<1, 0>>
SIG_BAB == <<66, 65, 66>>
SIG_BOM_LE == <<255, 254>>
SIG_BOM_BE == <<254, 255>>
SIG_REGIONAL ==
    { <<104, 70, 97, 114, 115, 105>>,              \* hFarsi
      <<65, 114, 121, 97, 110, 112, 117, 114>>,    \* Aryanpur
      <<66, 71, 76>>,                              \* BGL
      <<31, 139>> }

Prefix(s, n) == SubSeq(s, 1, Min(n, Len(s)))

\* a sniffer that looks for the vendor marker before the standard header
is_encrypted_bgl_marker_first(file) ==
    IF ~file.readable
    THEN [enc |-> FALSE, hint |-> "Error checking header"]
    ELSE LET header == Prefix(file.bytes, HEADER_LEN)
             std == StartsWith(header, SIG_CLEAR_A) \/ StartsWith(header, SIG_CLEAR_B)
         IN IF \/ Contains(header, SIG_BAB)
               \/ Contains(Prefix(header, BOM_WINDOW), SIG_BOM_LE)
               \/ Contains(Prefix(header, BOM_WINDOW), SIG_BOM_BE)
            THEN [enc |-> TRUE, hint |-> "ENCRYPTED"]
            ELSE IF std THEN [enc |-> FALSE, hint |-> "Unencrypted BGL detected"]
            ELSE IF \E sig \in SIG_REGIONAL : Contains(header, sig)
                 THEN [enc |-> TRUE, hint |-> "LIKELY ENCRYPTED"]
            ELSE [enc |-> FALSE, hint |-> "Unknown format"]

\* DictionaryManager._is_encrypted_bgl; file = [readable, bytes]
is_encrypted_bgl(file) ==
    IF ~file.readable
    THEN [enc |-> FALSE, hint |-> "Error checking header"]
    ELSE LET header == Prefix(file.bytes, HEADER_LEN)
             std == StartsWith(header, SIG_CLEAR_A) \/ StartsWith(header, SIG_CLEAR_B)
         IN IF std THEN [enc |-> FALSE, hint |-> "Unencrypted BGL detected"]
            ELSE IF \/ Contains(header, SIG_BAB)
                    \/ Contains(Prefix(header, BOM_WINDOW), SIG_BOM_LE)
                    \/ Contains(Prefix(header, BOM_WINDOW), SIG_BOM_BE)
                 THEN [enc |-> TRUE, hint |-> "ENCRYPTED"]
            ELSE IF (\E sig \in SIG_REGIONAL : Contains(header, sig)) /\ ~std
                 THEN [enc |-> TRUE, hint |-> "LIKELY ENCRYPTED"]
            ELSE [enc |-> FALSE, hint |-> "Unknown format"]

-----------------------------------------------------------------------------
(* Paths *)

EXT_BGL == <<".", "b", "g", "l">>

RECURSIVE LastDot(_)
LastDot(s) ==
    IF s = <<>> THEN 0
    ELSE IF s[Len(s)] = "." THEN Len(s)
    ELSE LastDot(SubSeq(s, 1, Len(s) - 1))

\* Path(p).stem: the name without its last suffix
Stem(p) ==
    LET i == LastDot(p)
    IN IF i > 1 /\ i < Len(p) THEN SubSeq(p, 1, i - 1) ELSE p

\* Path(p).with_suffix(".bgl")
WithSuffixBgl(p) == Stem(p) \o EXT_BGL

\* a derived name that keeps the dashes of the base name
DictNameKeepsDash(p) == ReplaceChar(ReplaceChar(Stem(p), " ", "_"), ".", "_")

\* Path(bgl_path).stem.replace(" ", "_").replace(".", "_").replace("-", "_")
DictName(p) == ReplaceChar(ReplaceChar(ReplaceChar(Stem(p), " ", "_"), ".", "_"), "-", "_")

-----------------------------------------------------------------------------
(* Decoder results and cleaning *)

ENCRYPTION_KEYWORDS ==
    { <<"e", "n", "c", "r", "y", "p", "t">>,
      <<"p", "a", "s", "s", "w", "o", "r", "d">>,
      <<"d", "r", "m">>,
      <<"p", "r", "o", "t", "e", "c", "t", "e", "d">> }

\* any(k in err for k in [...]) with err = str(e).lower()
HasEncryptionKeyword(msg) ==
    \E k \in ENCRYPTION_KEYWORDS : Contains(Lower(msg), k)

\* for entry in glos: skip data records, keep pairs with word and defi
Retain(rows) ==
    LET Test(e) == ~e.isData /\ e.word # <<>> /\ e.defi # <<>>
    IN SelectSeq(rows, Test)

\* the cleaning loop: strip both, keep pairs still non-empty
Clean(retained) ==
    LET stripped == [i \in 1..Len(retained) |->
                        [word |-> Strip(retained[i].word),
                         definition |-> Strip(retained[i].defi)]]
        Test(e) == e.word # <<>> /\ e.definition # <<>>
    IN SelectSeq(stripped, Test)

-----------------------------------------------------------------------------
(* The store: what one sqlite3 connection reads and writes *)

Db == [dictionaries |-> dictionaries, seq |-> seq_dictionaries,
       entries |-> entries, search_history |-> search_history,
       favorites |-> favorites]

SetDb(db) ==
    /\ dictionaries' = db.dictionaries
    /\ seq_dictionaries' = db.seq
    /\ entries' = db.entries
    /\ search_history' = db.search_history
    /\ favorites' = db.favorites

\* PRAGMA foreign_keys of a connection opened by sqlite3.connect(db_path):
\* SQLite leaves it off and no statement of the manager turns it on
foreign_keys == FALSE

\* ON DELETE SET NULL of search_history and favorites
SetNull(rows, ids) ==
    [i \in 1..Len(rows) |->
        IF rows[i].dictionary_id \in ids
        THEN [rows[i] EXCEPT !.dictionary_id = NULL] ELSE rows[i]]

\* Deleting rows of dictionaries, with the schema's foreign-key actions when
\* the connection enforces foreign keys
DeleteDictionaries(db, ids) ==
    LET Keep(r) == r.dictionary_id \notin ids
    IN IF foreign_keys
       THEN [db EXCEPT !.dictionaries = {d \in @ : d.id \notin ids},
                       !.entries = SelectSeq(@, Keep),
                       !.search_history = SetNull(@, ids),
                       !.favorites = SetNull(@, ids)]
       ELSE [db EXCEPT !.dictionaries = {d \in @ : d.id \notin ids}]

\* a plain INSERT into a table whose name column is not UNIQUE
InsertDictionary(db, name, source_path, word_count) ==
    [db EXCEPT !.dictionaries = @ \cup
                   {[id |-> db.seq + 1, name |-> name, source_path |-> source_path,
                     word_count |-> word_count, is_encrypted |-> FALSE]},
               !.seq = db.seq + 1]

\* INSERT OR REPLACE INTO dictionaries (name, source_path, word_count,
\* is_encrypted): the row holding the name (UNIQUE) is deleted, the new row
\* takes the next AUTOINCREMENT id
InsertOrReplaceDictionary(db, name, source_path, word_count) ==
    LET clash == {d.id : d \in {x \in db.dictionaries : x.name = name}}
        d1 == DeleteDictionaries(db, clash)
        id == d1.seq + 1
    IN [d1 EXCEPT !.dictionaries = @ \cup
                      {[id |-> id, name |-> name, source_path |-> source_path,
                        word_count |-> word_count, is_encrypted |-> FALSE]},
                  !.seq = id]

\* SELECT id FROM dictionaries WHERE name = ?
SelectIdByName(db, name) ==
    (CHOOSE d \in db.dictionaries : d.name = name).id

\* DELETE FROM entries WHERE dictionary_id = ?
DeleteEntries(db, dict_id) ==
    LET Keep(r) == ~SqlEq(r.dictionary_id, dict_id)
    IN [db EXCEPT !.entries = SelectSeq(@, Keep)]

\* an INSERT that skips a word the dictionary already holds
InsertEntryOncePerWord(db, dict_id, e) ==
    IF \E i \in 1..Len(db.entries) :
           db.entries[i].dictionary_id = dict_id /\ db.entries[i].word = e.word
    THEN db
    ELSE [db EXCEPT !.entries = Append(@, [dictionary_id |-> dict_id, word |-> e.word,
                                           definition |-> e.definition])]

\* one row of the executemany INSERT INTO entries
InsertEntry(db, dict_id, e) ==
    [db EXCEPT !.entries = Append(@, [dictionary_id |-> dict_id, word |-> e.word,
                                      definition |-> e.definition])]

RECURSIVE InsertEntries(_, _, _)
InsertEntries(db, dict_id, batch) ==
    IF batch = <<>> THEN db
    ELSE InsertEntries(InsertEntry(db, dict_id, Head(batch)), dict_id, Tail(batch))

\* a connection whose writes stay in the file when the with-block is left on
\* an exception
RollbackKeepsWrites(committed, working) == working

\* the with-block leaving on an exception: the connection rolls back
Rollback(committed, working) == committed

\* conn.commit()
Commit(committed, working) == working

\* lines 221-241 as one transaction
PersistDictionary(db, name, source_path, cleaned) ==
    LET d1 == InsertOrReplaceDictionary(db, name, source_path, Len(cleaned))
        id == SelectIdByName(d1, name)
    IN InsertEntries(DeleteEntries(d1, id), id, cleaned)

EntriesOf(ents, dict_id) ==
    LET Test(r) == r.dictionary_id = dict_id IN SelectSeq(ents, Test)

-----------------------------------------------------------------------------
(* Inputs enumerated by the model *)

P_PUNCT == <<"a", "-", " ", ".", "b", ".", "b", "g", "l">>   \* "a- .b.bgl"
P_UPPER == <<"A", ".", "B", "G", "L">>                       \* "A.BGL"
P_LOWER == <<"A", ".", "b", "g", "l">>                       \* "A.bgl"
P_TXT == <<"a", ".", "t", "x", "t">>                         \* "a.txt"

Paths == {P_PUNCT, P_UPPER, P_LOWER, P_TXT}

\* the sources directory before the first call
InitialFiles == {P_PUNCT, P_UPPER, P_TXT}

\* what open(path, "rb") finds
FileReads ==
    { [readable |-> TRUE, bytes |-> <<0, 1, 66, 65, 66>>],   \* 00 01 B A B
      [readable |-> TRUE, bytes |-> <<254, 255, 0, 0>>],     \* FE FF ..
      [readable |-> TRUE, bytes |-> <<18, 52, 66, 71, 76>>], \* .. B G L
      [readable |-> FALSE, bytes |-> <<>>] }

Row(isData, word, defi) == [isData |-> isData, word |-> word, defi |-> defi]

CONTENT_A ==
    << Row(FALSE, <<"a", "b">>, <<"x">>),
       Row(FALSE, <<"A", "b">>, <<"y">>),
       Row(TRUE, <<>>, <<>>),
       Row(FALSE, <<" ", "b", " ">>, <<"z">>),
       Row(FALSE, <<"a">>, <<>>) >>

CONTENT_B ==
    << Row(FALSE, <<"a", "%">>, <<"x">>),
       Row(FALSE, <<"a", "b">>, <<"y", " ">>),
       Row(FALSE, <<"a", "b">>, <<"z">>) >>

CONTENT_DATA == << Row(TRUE, <<>>, <<>>) >>

CONTENT_BLANK == << Row(FALSE, <<" ">>, <<"x">>) >>

\* what the decoder does with the file: directRead raises, the iteration
\* raises, or the rows are drained
Decoded(rows) == [raises |-> FALSE, iter_raises |-> FALSE, msg |-> <<>>, rows |-> rows]

Decodes ==
    { Decoded(CONTENT_A), Decoded(CONTENT_B), Decoded(CONTENT_DATA),
      Decoded(CONTENT_BLANK),
      [raises |-> TRUE, iter_raises |-> FALSE, msg |-> <<"D", "R", "M">>, rows |-> <<>>],
      [raises |-> TRUE, iter_raises |-> FALSE, msg |-> <<"b", "a", "d">>, rows |-> <<>>],
      [raises |-> FALSE, iter_raises |-> TRUE, msg |-> <<"b", "a", "d">>, rows |-> <<>>],
      [raises |-> FALSE, iter_raises |-> TRUE, msg |-> <<"D", "R", "M">>, rows |-> <<>>] }

QueryChars == {"a", "A", "b", "_", "%", " "}

RECURSIVE TextsUpTo(_, _)
TextsUpTo(chars, n) ==
    IF n = 0 THEN {<<>>}
    ELSE LET shorter == TextsUpTo(chars, n - 1)
         IN shorter \cup {Append(t, c) : t \in shorter, c \in chars}

Queries == TextsUpTo(QueryChars, MaxQueryLen)

Limits == 0..MaxLimit

-----------------------------------------------------------------------------
(* import_bgl up to the point where the store is opened *)

\* lines 148-159: the lower-case copy; gives the path handed to the decoder
\* and the files afterwards
NormalizeCopy(bgl_path, files, copy_ok) ==
    LET normalized_path == WithSuffixBgl(bgl_path)
    IN IF bgl_path # Lower(bgl_path) /\ normalized_path \notin files /\ copy_ok
       THEN [bgl_path |-> normalized_path, files |-> files \cup {normalized_path}]
       ELSE [bgl_path |-> bgl_path, files |-> files]

Failure(kind, sniffed, decoder_calls, files) ==
    [kind |-> kind, sniffed |-> sniffed, decoder_calls |-> decoder_calls,
     files |-> files, dict_name |-> <<>>, bgl_path |-> <<>>, cleaned |-> <<>>]

\* import_bgl that runs the decoder before it looks at the sniffer's answer
ImportPlanDecodeFirst(path, files, file, dec, copy_ok) ==
    IF path \notin files THEN Failure("NotFound", "", 0, files)
    ELSE IF ~EndsWith(Lower(path), EXT_BGL) THEN Failure("WrongExtension", "", 0, files)
    ELSE LET sniff == is_encrypted_bgl(file)
             n == NormalizeCopy(path, files, copy_ok)
             retained == Retain(dec.rows)
             cleaned == Clean(retained)
         IN IF dec.raises
            THEN IF HasEncryptionKeyword(dec.msg)
                 THEN Failure("DecryptionFailed", sniff.hint, 1, n.files)
                 ELSE Failure("DecodeError", sniff.hint, 1, n.files)
            ELSE IF sniff.enc THEN Failure("EncryptionDetected", sniff.hint, 1, n.files)
            ELSE IF dec.iter_raises THEN Failure("ReadError", sniff.hint, 1, n.files)
            ELSE IF retained = <<>> THEN Failure("EmptyResult", sniff.hint, 1, n.files)
            ELSE IF cleaned = <<>> THEN Failure("NoValidEntries", sniff.hint, 1, n.files)
            ELSE [kind |-> "ok", sniffed |-> sniff.hint, decoder_calls |-> 1,
                  files |-> n.files, dict_name |-> DictName(path),
                  bgl_path |-> n.bgl_path, cleaned |-> cleaned]

\* lines 119-218: the outcome of every step before the store is written.
\* sniffed is the sniffer's hint ("" when the sniffer was not run) and
\* decoder_calls counts the calls of glos.directRead.
ImportPlan(path, files, file, dec, copy_ok) ==
    IF path \notin files THEN Failure("NotFound", "", 0, files)
    ELSE IF ~EndsWith(Lower(path), EXT_BGL) THEN Failure("WrongExtension", "", 0, files)
    ELSE LET sniff == is_encrypted_bgl(file)
             n == NormalizeCopy(path, files, copy_ok)
             retained == Retain(dec.rows)
             cleaned == Clean(retained)
         IN IF sniff.enc THEN Failure("EncryptionDetected", sniff.hint, 0, files)
            ELSE IF dec.raises
            THEN IF HasEncryptionKeyword(dec.msg)
                 THEN Failure("DecryptionFailed", sniff.hint, 1, n.files)
                 ELSE Failure("DecodeError", sniff.hint, 1, n.files)
            ELSE IF dec.iter_raises THEN Failure("ReadError", sniff.hint, 1, n.files)
            ELSE IF retained = <<>> THEN Failure("EmptyResult", sniff.hint, 1, n.files)
            ELSE IF cleaned = <<>> THEN Failure("NoValidEntries", sniff.hint, 1, n.files)
            ELSE [kind |-> "ok", sniffed |-> sniff.hint, decoder_calls |-> 1,
                  files |-> n.files, dict_name |-> DictName(path),
                  bgl_path |-> n.bgl_path, cleaned |-> cleaned]

\* the working copy of the transaction after its first k statements
TxAfter(db, plan, k) ==
    LET d1 == InsertOrReplaceDictionary(db, plan.dict_name, plan.bgl_path,
                                        Len(plan.cleaned))
        id == SelectIdByName(d1, plan.dict_name)
        d3 == DeleteEntries(d1, id)
    IN IF k = 0 THEN db
       ELSE IF k <= 2 THEN d1
       ELSE InsertEntries(d3, id, SubSeq(plan.cleaned, 1, k - 3))

\* statements of the transaction of a plan: INSERT OR REPLACE, SELECT,
\* DELETE, one INSERT per cleaned pair
TxLength(plan) == 3 + Len(plan.cleaned)

-----------------------------------------------------------------------------
(* The manager called from one thread: each call is one step *)

Idle == [pc |-> "idle"]
NoTx == [owner |-> NULL]

Sequential == UNCHANGED <<workers, tx>>

\* DictionaryManager.__init__ over the database file as it is
manager_init ==
    /\ current_dict_id' = NULL
    /\ last' = [op |-> "__init__"]
    /\ UNCHANGED <<store, fs, clock>>
    /\ Sequential

\* DictionaryManager.import_bgl. fail_at = k > 0: statement k of the
\* transaction (the commit after the last one) raises a storage error.
import_bgl(path, file, dec, copy_ok, fail_at) ==
    \E plan \in {ImportPlan(path, fs, file, dec, copy_ok)} :
    LET again == /\ last.op = "import_bgl" /\ last.ok
                 /\ last.path = path /\ last.dec = dec
        Result(ok, kind) ==
            IF ok
            THEN [op |-> "import_bgl", ok |-> TRUE, kind |-> kind, path |-> path,
                  dec |-> dec, sniffed |-> plan.sniffed,
                  decoder_calls |-> plan.decoder_calls, again |-> again]
            ELSE [op |-> "import_bgl", ok |-> FALSE, kind |-> kind, path |-> path,
                  found |-> path \in fs, file |-> file, dec |-> dec,
                  sniffed |-> plan.sniffed, decoder_calls |-> plan.decoder_calls]
    IN /\ fs' = plan.files
       /\ UNCHANGED clock
       /\ Sequential
       /\ IF plan.kind # "ok"
          THEN /\ fail_at = 0
               /\ last' = Result(FALSE, plan.kind)
               /\ UNCHANGED <<store, current_dict_id>>
          ELSE /\ seq_dictionaries < MaxDictId
               /\ fail_at <= TxLength(plan) + 1
               /\ IF fail_at > 0
                  THEN /\ \E working \in {TxAfter(Db, plan, fail_at - 1)} :
                              SetDb(Rollback(Db, working))
                       /\ last' = Result(FALSE, "ImportFailed")
                       /\ UNCHANGED current_dict_id
                  ELSE \E working \in {TxAfter(Db, plan, TxLength(plan))} :
                          /\ SetDb(Commit(Db, working))
                          /\ current_dict_id' = SelectIdByName(working, plan.dict_name)
                          /\ last' = Result(TRUE, "ok")

\* a search that writes its query to the history ledger
search_call_recording(query, limit) ==
    /\ last' = [op |-> "search", ret |-> search(query, limit)]
    /\ search_history' = Append(search_history,
                                [query |-> Strip(query), dictionary_id |-> current_dict_id,
                                 searched_at |-> clock])
    /\ UNCHANGED <<dictionaries, seq_dictionaries, entries, favorites,
                   current_dict_id, fs, clock>>
    /\ Sequential

\* DictionaryManager.search
search_call(query, limit) ==
    /\ last' = [op |-> "search", ret |-> search(query, limit)]
    /\ UNCHANGED <<store, current_dict_id, fs, clock>>
    /\ Sequential

\* DictionaryManager.get_suggestions
get_suggestions_call(prefix, limit) ==
    /\ last' = [op |-> "get_suggestions", ret |-> get_suggestions(prefix, limit)]
    /\ UNCHANGED <<store, current_dict_id, fs, clock>>
    /\ Sequential

\* SELECT id, name, word_count FROM dictionaries ORDER BY name, as a set
get_dictionaries ==
    {<<d.id, d.name, d.word_count>> : d \in dictionaries}

get_dictionaries_call ==
    /\ last' = [op |-> "get_dictionaries", ret |-> get_dictionaries]
    /\ UNCHANGED <<store, current_dict_id, fs, clock>>
    /\ Sequential

\* a selection that moves the pointer whether or not the row exists
set_active_dictionary_unchecked(dict_id) ==
    LET exists == \E d \in dictionaries : SqlEq(d.id, dict_id)
    IN /\ current_dict_id' = dict_id
       /\ last' = [op |-> "set_active_dictionary", dict_id |-> dict_id, ret |-> exists]
       /\ UNCHANGED <<store, fs, clock>>
       /\ Sequential

\* DictionaryManager.set_active_dictionary
set_active_dictionary(dict_id) ==
    LET exists == \E d \in dictionaries : SqlEq(d.id, dict_id)
    IN /\ current_dict_id' = IF exists THEN dict_id ELSE current_dict_id
       /\ last' = [op |-> "set_active_dictionary", dict_id |-> dict_id, ret |-> exists]
       /\ UNCHANGED <<store, fs, clock>>
       /\ Sequential

-----------------------------------------------------------------------------
(* Search history *)

Remove(rows, i) == SubSeq(rows, 1, i - 1) \o SubSeq(rows, i + 1, Len(rows))

\* the positions of idx whose row has the time `at`
RowsAt(rows, idx, at) == {i \in idx : rows[i].searched_at = at}

Times(rows, idx) == {rows[i].searched_at : i \in idx}

\* the rows ORDER BY searched_at DESC puts last
Oldest(rows) ==
    LET idx == 1..Len(rows)
    IN UNION { RowsAt(rows, idx, at) :
                 at \in {t \in Times(rows, idx) : \A u \in Times(rows, idx) : t <= u} }

\* a prune that keeps one row too many
PruneKeepsOneMore(rows) ==
    IF Len(rows) <= HISTORY_LIMIT + 1 THEN {rows}
    ELSE {Remove(rows, i) : i \in Oldest(rows)}

\* DELETE FROM search_history WHERE id NOT IN (SELECT id FROM search_history
\* ORDER BY searched_at DESC LIMIT 100): every table the statement may leave.
\* Rows of equal searched_at come out of the ORDER BY in an order SQL leaves
\* open, so any of the oldest rows may be the one that goes.
RECURSIVE PruneHistory(_)
PruneHistory(rows) ==
    IF Len(rows) <= HISTORY_LIMIT THEN {rows}
    ELSE UNION {PruneHistory(Remove(rows, i)) : i \in Oldest(rows)}

\* the rows ORDER BY searched_at DESC puts first
Newest(rows, idx) ==
    UNION { RowsAt(rows, idx, at) :
              at \in {t \in Times(rows, idx) : \A u \in Times(rows, idx) : t >= u} }

\* SELECT query, searched_at ... ORDER BY searched_at DESC LIMIT k over the
\* rows at the positions idx: every list the statement may return
RECURSIVE NewestFirst(_, _, _)
NewestFirst(rows, idx, k) ==
    IF k = 0 \/ idx = {} THEN {<<>>}
    ELSE LET newest == Newest(rows, idx)
             Val(i) == <<rows[i].query, rows[i].searched_at>>
         IN UNION { LET i == CHOOSE n \in newest : Val(n) = v
                    IN {<<v>> \o t : t \in NewestFirst(rows, idx \ {i}, k - 1)}
                    : v \in {Val(n) : n \in newest} }

\* DictionaryManager.get_history: the lists it may return
get_history(limit) ==
    NewestFirst(search_history, 1..Len(search_history),
                LimitCount(Len(search_history), limit))

\* DictionaryManager.add_to_history at time now
add_to_history(query, now) ==
    /\ now \in clock..Min(clock + 1, MaxClock)
    /\ clock' = now
    /\ IF Strip(query) = <<>>
       THEN UNCHANGED search_history
       ELSE search_history' \in PruneHistory(
                Append(search_history,
                       [query |-> Strip(query), dictionary_id |-> current_dict_id,
                        searched_at |-> now]))
    /\ last' = [op |-> "add_to_history", query |-> query,
                dictionary_id |-> current_dict_id]
    /\ UNCHANGED <<dictionaries, seq_dictionaries, entries, favorites,
                   current_dict_id, fs>>
    /\ Sequential

get_history_call(limit) ==
    /\ \E rows \in get_history(limit) :
           last' = [op |-> "get_history", limit |-> limit, ret |-> rows]
    /\ UNCHANGED <<store, current_dict_id, fs, clock>>
    /\ Sequential

\* DictionaryManager.clear_history
clear_history ==
    /\ search_history' = <<>>
    /\ last' = [op |-> "clear_history"]
    /\ UNCHANGED <<dictionaries, seq_dictionaries, entries, favorites,
                   current_dict_id, fs, clock>>
    /\ Sequential

-----------------------------------------------------------------------------
(* Favorites *)

\* a duplicate check that is left out
FavoriteNeverExists(favs, word, dict_id) == FALSE

\* SELECT 1 FROM favorites WHERE word = ? AND dictionary_id = ?
FavoriteExists(favs, word, dict_id) ==
    \E i \in 1..Len(favs) : favs[i].word = word /\ SqlEq(favs[i].dictionary_id, dict_id)

\* DictionaryManager.add_to_favorites
add_to_favorites(word, definition) ==
    LET exists == FavoriteExists(favorites, word, current_dict_id)
        again == /\ last.op = "add_to_favorites" /\ last.word = word /\ last.ret
    IN /\ favorites' =
            IF exists THEN favorites
            ELSE Append(favorites, [word |-> word, definition |-> definition,
                                    dictionary_id |-> current_dict_id])
       /\ last' = [op |-> "add_to_favorites", word |-> word, ret |-> ~exists,
                   again |-> again]
       /\ UNCHANGED <<dictionaries, seq_dictionaries, entries, search_history,
                      current_dict_id, fs, clock>>
       /\ Sequential

\* a removal by word alone, whatever dictionary the row belongs to
remove_from_favorites_any_dictionary(word) ==
    LET Keep(r) == r.word # word
        kept == SelectSeq(favorites, Keep)
    IN /\ favorites' = kept
       /\ last' = [op |-> "remove_from_favorites", word |-> word,
                   ret |-> Len(kept) < Len(favorites)]
       /\ UNCHANGED <<dictionaries, seq_dictionaries, entries, search_history,
                      current_dict_id, fs, clock>>
       /\ Sequential

\* DictionaryManager.remove_from_favorites
remove_from_favorites(word) ==
    LET Keep(r) == ~(r.word = word /\ SqlEq(r.dictionary_id, current_dict_id))
        kept == SelectSeq(favorites, Keep)
    IN /\ favorites' = kept
       /\ last' = [op |-> "remove_from_favorites", word |-> word,
                   ret |-> Len(kept) < Len(favorites)]
       /\ UNCHANGED <<dictionaries, seq_dictionaries, entries, search_history,
                      current_dict_id, fs, clock>>
       /\ Sequential

\* DictionaryManager.is_favorite
is_favorite(word) == FavoriteExists(favorites, word, current_dict_id)

is_favorite_call(word) ==
    /\ last' = [op |-> "is_favorite", word |-> word, ret |-> is_favorite(word)]
    /\ UNCHANGED <<store, current_dict_id, fs, clock>>
    /\ Sequential

-----------------------------------------------------------------------------
(* Specifications *)

Workers == {1, 2}

EmptyDb == [dictionaries |-> {}, seq |-> 0, entries |-> <<>>,
            search_history |-> <<>>, favorites |-> <<>>]

\* a new database file and a manager just constructed
Init ==
    /\ dictionaries = {}
    /\ seq_dictionaries = 0
    /\ entries = <<>>
    /\ search_history = <<>>
    /\ favorites = <<>>
    /\ current_dict_id = NULL
    /\ fs = InitialFiles
    /\ clock = 0
    /\ last = [op |-> "__init__"]
    /\ workers = [w \in Workers |-> Idle]
    /\ tx = NoTx

\* the statements of the transaction at which a storage error is tried: none,
\* the first, one in the middle of the batch, the commit
FailPoints(plan) ==
    IF plan.kind = "ok"
    THEN {0, 1, TxLength(plan) - 1, TxLength(plan) + 1} ELSE {0}

\* import_bgl on every path, file and decoder result. An input that no step
\* of the call reads takes a single value, and a file that cannot be opened
\* cannot be decoded either.
ImportCall ==
    \E path \in Paths, file \in FileReads :
        IF \/ path \notin fs
           \/ ~EndsWith(Lower(path), EXT_BGL)
           \/ is_encrypted_bgl(file).enc
        THEN import_bgl(path, file, Decoded(CONTENT_A), TRUE, 0)
        ELSE \E dec \in {d \in Decodes : ~file.readable => d.raises},
                copy_ok \in IF path # Lower(path) THEN BOOLEAN ELSE {TRUE} :
                 \E fail_at \in FailPoints(ImportPlan(path, fs, file, dec, copy_ok)) :
                     import_bgl(path, file, dec, copy_ok, fail_at)

SampleQueries == {<<"a">>, <<"_", "b">>, <<" ", "A", " ">>, <<" ">>}

SearchCall == \E q \in SampleQueries, limit \in Limits : search_call(q, limit)

SuggestCall == \E q \in SampleQueries, limit \in Limits : get_suggestions_call(q, limit)

SetActiveCall == \E id \in 0..MaxDictId : set_active_dictionary(id)

\* ingestion, selection and lookup from one thread
Next ==
    \/ ImportCall
    \/ SearchCall
    \/ SuggestCall
    \/ get_dictionaries_call
    \/ SetActiveCall
    \/ manager_init

Spec == Init /\ [][Next]_vars

-----------------------------------------------------------------------------
(* The ledgers over a store kept from earlier runs *)

CLEAR_FILE == [readable |-> TRUE, bytes |-> <<0, 1, 66, 65, 66>>]

\* the store after "a- .b.bgl" was ingested by an earlier run
PersistedDb ==
    PersistDictionary(EmptyDb, DictName(P_PUNCT), P_PUNCT, Clean(Retain(CONTENT_A)))

PERSISTED_QUERY == <<"z">>

\* a ledger one row short of the cap, written within one second
PersistedHistory ==
    [i \in 1..(HISTORY_LIMIT - 1) |->
        [query |-> PERSISTED_QUERY, dictionary_id |-> NULL, searched_at |-> 0]]

\* rows of the ledger written by this run
RunRows(rows) == {i \in 1..Len(rows) : rows[i].query # PERSISTED_QUERY}

InitLedger(history) ==
    /\ dictionaries = PersistedDb.dictionaries
    /\ seq_dictionaries = PersistedDb.seq
    /\ entries = PersistedDb.entries
    /\ search_history = history
    /\ favorites = <<>>
    /\ current_dict_id = NULL
    /\ fs = InitialFiles
    /\ clock = 0
    /\ last = [op |-> "__init__"]
    /\ workers = [w \in Workers |-> Idle]
    /\ tx = NoTx

InitHistory == \E h \in {<<>>, PersistedHistory} : InitLedger(h)

InitFavorites == InitLedger(<<>>)

\* one more ingestion, of a new name or of the name the store holds
LedgerImport ==
    \E path \in {P_PUNCT, P_UPPER} :
        import_bgl(path, CLEAR_FILE, Decoded(CONTENT_B), TRUE, 0)

HistoryQueries == {<<"a">>, <<" ", "b">>, <<" ">>}

AddToHistoryCall ==
    \E q \in HistoryQueries, now \in 0..MaxClock :
        /\ Cardinality(RunRows(search_history)) < MaxHistory
        /\ add_to_history(q, now)

GetHistoryCall == \E limit \in Limits : get_history_call(limit)

NextHistory ==
    \/ AddToHistoryCall
    \/ GetHistoryCall
    \/ clear_history
    \/ SetActiveCall
    \/ manager_init
    \/ LedgerImport

SpecHistory == InitHistory /\ [][NextHistory]_vars

FavoriteWords == {<<"a">>, <<"b">>}

AddToFavoritesCall ==
    \E word \in FavoriteWords :
        /\ Len(favorites) < MaxFavorites
        /\ add_to_favorites(word, <<"x">>)

RemoveFromFavoritesCall == \E word \in FavoriteWords : remove_from_favorites(word)

IsFavoriteCall == \E word \in FavoriteWords : is_favorite_call(word)

NextFavorites ==
    \/ AddToFavoritesCall
    \/ RemoveFromFavoritesCall
    \/ IsFavoriteCall
    \/ SetActiveCall
    \/ manager_init
    \/ LedgerImport

SpecFavorites == InitFavorites /\ [][NextFavorites]_vars

\* the store of an earlier run that searched for "a" and kept "ab" as a
\* favorite while its dictionary was active
InitLookup ==
    /\ dictionaries = PersistedDb.dictionaries
    /\ seq_dictionaries = PersistedDb.seq
    /\ entries = PersistedDb.entries
    /\ search_history = <<[query |-> <<"a">>, dictionary_id |-> 1, searched_at |-> 0]>>
    /\ favorites = <<[word |-> <<"a", "b">>, definition |-> <<"x">>,
                      dictionary_id |-> 1]>>
    /\ current_dict_id = NULL
    /\ fs = InitialFiles
    /\ clock = 0
    /\ last = [op |-> "__init__"]
    /\ workers = [w \in Workers |-> Idle]
    /\ tx = NoTx

\* lookups over a store whose ledgers are in use
NextLookup ==
    \/ SearchCall
    \/ SuggestCall
    \/ AddToFavoritesCall
    \/ SetActiveCall
    \/ manager_init
    \/ LedgerImport

SpecLookup == InitLookup /\ [][NextLookup]_vars

-----------------------------------------------------------------------------
(* import_bgl called from worker threads (ImportWorker, ScanWorker): every
   call opens its own connection, statements of different calls interleave *)

\* k: statements of the transaction that ran before the call ended
Returned(ok, kind, k) == [pc |-> "returned", ok |-> ok, kind |-> kind, k |-> k]

\* lines 119-218: everything before the store is opened
ImportBegin(w, path, dec) ==
    /\ workers[w].pc = "idle"
    /\ \E plan \in {ImportPlan(path, fs, CLEAR_FILE, dec, TRUE)} :
          /\ fs' = plan.files
          /\ workers' = [workers EXCEPT ![w] =
                IF plan.kind = "ok"
                THEN [pc |-> "ready", plan |-> plan, k |-> 0]
                ELSE Returned(FALSE, plan.kind, 0)]
    /\ UNCHANGED <<store, current_dict_id, clock, last, tx>>

\* lines 223-228: INSERT OR REPLACE opens the transaction and takes the
\* write lock of the database file
TxBegin(w) ==
    /\ workers[w].pc = "ready"
    /\ tx.owner = NULL
    /\ seq_dictionaries < MaxDictId
    /\ tx' = [owner |-> w]
    /\ workers' = [workers EXCEPT ![w] = [@ EXCEPT !.pc = "tx", !.k = 1]]
    /\ UNCHANGED <<store, current_dict_id, fs, clock, last>>

\* lines 223-228 while another connection holds the write lock and the busy
\* timeout runs out: sqlite3.OperationalError, caught at line 248
TxLocked(w) ==
    /\ workers[w].pc = "ready"
    /\ tx.owner \notin {NULL, w}
    /\ workers' = [workers EXCEPT ![w] = Returned(FALSE, "ImportFailed", 0)]
    /\ UNCHANGED <<store, current_dict_id, fs, clock, last, tx>>

\* lines 229-240: SELECT id, DELETE FROM entries, then the batch row by row,
\* all on the connection's uncommitted copy
TxStatement(w) ==
    /\ workers[w].pc = "tx"
    /\ workers[w].k < TxLength(workers[w].plan)
    /\ workers' = [workers EXCEPT ![w] = [@ EXCEPT !.k = @ + 1]]
    /\ UNCHANGED <<store, current_dict_id, fs, clock, last, tx>>

\* a storage error at the next statement or at the commit: the with-block
\* rolls back (line 221) and line 248 reports the failure
TxFail(w) ==
    /\ workers[w].pc \in {"ready", "tx"}
    /\ tx.owner \in {NULL, w}
    /\ \E working \in {TxAfter(Db, workers[w].plan, workers[w].k)} :
          SetDb(Rollback(Db, working))
    /\ tx' = NoTx
    /\ workers' = [workers EXCEPT ![w] = Returned(FALSE, "ImportFailed", workers[w].k)]
    /\ UNCHANGED <<current_dict_id, fs, clock, last>>

\* line 241: conn.commit() publishes the connection's copy
TxCommit(w) ==
    /\ workers[w].pc = "tx"
    /\ workers[w].k = TxLength(workers[w].plan)
    /\ \E working \in {TxAfter(Db, workers[w].plan, workers[w].k)} :
          /\ SetDb(Commit(Db, working))
          /\ workers' = [workers EXCEPT ![w] =
                [pc |-> "committed", plan |-> workers[w].plan,
                 dict_id |-> SelectIdByName(working, workers[w].plan.dict_name)]]
    /\ tx' = NoTx
    /\ UNCHANGED <<current_dict_id, fs, clock, last>>

\* line 242: self.current_dict_id = dict_id
SetCurrent(w) ==
    /\ workers[w].pc = "committed"
    /\ current_dict_id' = workers[w].dict_id
    /\ workers' = [workers EXCEPT ![w] = Returned(TRUE, "ok", TxLength(workers[w].plan))]
    /\ UNCHANGED <<store, fs, clock, last, tx>>

\* the call returns (success, message) to its thread
ImportReturn(w) ==
    /\ workers[w].pc = "returned"
    /\ last' = [op |-> "import_bgl", ok |-> workers[w].ok, kind |-> workers[w].kind,
                worker |-> w]
    /\ workers' = [workers EXCEPT ![w] = Idle]
    /\ UNCHANGED <<store, current_dict_id, fs, clock, tx>>

\* what the worker threads are given: two sources of one derived name, one of
\* another, and a source the decoder rejects
ConcImports ==
    { <<P_UPPER, Decoded(CONTENT_A)>>, <<P_UPPER, Decoded(CONTENT_B)>>,
      <<P_PUNCT, Decoded(CONTENT_B)>>,
      <<P_PUNCT, [raises |-> TRUE, iter_raises |-> FALSE, msg |-> <<"b", "a", "d">>,
                  rows |-> <<>>]>> }

ImportBeginCall == \E w \in Workers, i \in ConcImports : ImportBegin(w, i[1], i[2])

ConcSearchCall == search_call(<<"a">>, MaxLimit)

\* two ingesting threads, and the interface thread listing and searching
NextConc ==
    \/ ImportBeginCall
    \/ \E w \in Workers : TxBegin(w)
    \/ \E w \in Workers : TxLocked(w)
    \/ \E w \in Workers : TxStatement(w)
    \/ \E w \in Workers : TxFail(w)
    \/ \E w \in Workers : TxCommit(w)
    \/ \E w \in Workers : SetCurrent(w)
    \/ \E w \in Workers : ImportReturn(w)
    \/ ConcSearchCall
    \/ get_dictionaries_call

SpecConc == Init /\ [][NextConc]_vars

-----------------------------------------------------------------------------
(* search called from a SearchWorker thread while the interface thread
   selects a dictionary and an ImportWorker ingests: search reads
   self.current_dict_id twice, in the guard of line 252 and in the
   parameters of line 265, and other threads run between the two reads *)

SEARCHER == 2
INGESTER == 1

\* line 252: the guard reads the pointer; a blank query or an unset pointer
\* returns [] at once
SearchGuard(w, query, limit) ==
    /\ workers[w].pc = "idle"
    /\ IF current_dict_id = NULL \/ Strip(query) = <<>>
       THEN /\ last' = [op |-> "search", query |-> query, limit |-> limit,
                        guard |-> current_dict_id, used |-> current_dict_id,
                        ret |-> <<>>]
            /\ UNCHANGED workers
       ELSE /\ workers' = [workers EXCEPT ![w] =
                  [pc |-> "guarded", query |-> query, limit |-> limit,
                   guard |-> current_dict_id]]
            /\ UNCHANGED last
    /\ UNCHANGED <<store, current_dict_id, fs, clock, tx>>

\* a search whose rows come half from the dictionary the guard saw and half
\* from the one the pointer names now
SearchSelectTorn(w) ==
    /\ workers[w].pc = "guarded"
    /\ last' = [op |-> "search", query |-> workers[w].query,
                limit |-> workers[w].limit, guard |-> workers[w].guard, used |-> current_dict_id,
                ret |-> SearchIn(entries, workers[w].guard, workers[w].query, 1)
                        \o SearchIn(entries, current_dict_id, workers[w].query, 1)]
    /\ workers' = [workers EXCEPT ![w] = Idle]
    /\ UNCHANGED <<store, current_dict_id, fs, clock, tx>>

\* lines 255-267: the pointer is read again for the parameters and the one
\* SELECT runs over the committed tables
SearchSelect(w) ==
    /\ workers[w].pc = "guarded"
    /\ last' = [op |-> "search", query |-> workers[w].query,
                limit |-> workers[w].limit, guard |-> workers[w].guard, used |-> current_dict_id,
                ret |-> LET q == Lower(Strip(workers[w].query))
                            rows == Limit(OrderByWord(MatchingRows(
                                        entries, current_dict_id, q \o <<"%">>)),
                                          workers[w].limit)
                        IN [i \in 1..Len(rows) |->
                               <<rows[i].word, rows[i].definition>>]]
    /\ workers' = [workers EXCEPT ![w] = Idle]
    /\ UNCHANGED <<store, current_dict_id, fs, clock, tx>>

SearchGuardCall ==
    \E q \in {<<"a">>, <<" ">>} : SearchGuard(SEARCHER, q, MaxLimit)

IngesterBeginCall == \E i \in ConcImports : ImportBegin(INGESTER, i[1], i[2])

\* a searching thread, an ingesting thread and the interface thread
NextSearchConc ==
    \/ SearchGuardCall
    \/ SearchSelect(SEARCHER)
    \/ SetActiveCall
    \/ IngesterBeginCall
    \/ TxBegin(INGESTER)
    \/ TxStatement(INGESTER)
    \/ TxFail(INGESTER)
    \/ TxCommit(INGESTER)
    \/ SetCurrent(INGESTER)
    \/ ImportReturn(INGESTER)

SpecSearchConc == Init /\ [][NextSearchConc]_vars

-----------------------------------------------------------------------------
(* add_to_favorites called from two threads: the SELECT and the INSERT of a
   call are two statements of its connection, and the statements of the
   other call may run between them *)

\* lines 403-406: the SELECT runs outside any transaction and sees the
\* committed rows
FavCheck(w, word, definition) ==
    /\ workers[w].pc = "idle"
    /\ Len(favorites) < MaxFavorites
    /\ workers' = [workers EXCEPT ![w] =
          [pc |-> "fav_checked", word |-> word, definition |-> definition,
           exists |-> FavoriteExists(favorites, word, current_dict_id)]]
    /\ UNCHANGED <<store, current_dict_id, fs, clock, last, tx>>

\* lines 407-414: return False, or INSERT and commit and return True
FavInsert(w) ==
    /\ workers[w].pc = "fav_checked"
    /\ favorites' =
          IF workers[w].exists THEN favorites
          ELSE Append(favorites, [word |-> workers[w].word,
                                  definition |-> workers[w].definition,
                                  dictionary_id |-> current_dict_id])
    /\ workers' = [workers EXCEPT ![w] =
          [pc |-> "fav_returned", word |-> workers[w].word,
           exists |-> workers[w].exists, ret |-> ~workers[w].exists]]
    /\ UNCHANGED <<dictionaries, seq_dictionaries, entries, search_history,
                   current_dict_id, fs, clock, last, tx>>

\* the caller takes the result
FavReturn(w) ==
    /\ workers[w].pc = "fav_returned"
    /\ last' = [op |-> "add_to_favorites", word |-> workers[w].word,
                ret |-> workers[w].ret, again |-> FALSE]
    /\ workers' = [workers EXCEPT ![w] = Idle]
    /\ UNCHANGED <<store, current_dict_id, fs, clock, tx>>

\* a manager over the persisted store with its dictionary made active
InitFavConc ==
    /\ dictionaries = PersistedDb.dictionaries
    /\ seq_dictionaries = PersistedDb.seq
    /\ entries = PersistedDb.entries
    /\ search_history = <<>>
    /\ favorites = <<>>
    /\ current_dict_id = SelectIdByName(PersistedDb, DictName(P_PUNCT))
    /\ fs = InitialFiles
    /\ clock = 0
    /\ last = [op |-> "set_active_dictionary", dict_id |-> current_dict_id,
               ret |-> TRUE]
    /\ workers = [w \in Workers |-> Idle]
    /\ tx = NoTx

NextFavConc ==
    \/ \E w \in Workers, word \in FavoriteWords : FavCheck(w, word, <<"x">>)
    \/ \E w \in Workers : FavInsert(w)
    \/ \E w \in Workers : FavReturn(w)

SpecFavConc == InitFavConc /\ [][NextFavConc]_vars

-----------------------------------------------------------------------------
(* scan_and_import *)

P_UNDER == <<"a", "_", " ", ".", "b", ".", "b", "g", "l">>   \* "a_ .b.bgl"
P_ENC == <<"b", ".", "b", "g", "l">>                         \* "b.bgl"

ENCRYPTED_FILE == [readable |-> TRUE, bytes |-> <<254, 255, 0, 0>>]

\* what each file of the sources directory holds: its header and what the
\* decoder makes of it. The lower-case copy holds what its original holds.
OnDisk(path) ==
    IF path = P_ENC
    THEN [file |-> ENCRYPTED_FILE, dec |-> Decoded(CONTENT_B)]
    ELSE IF path = P_PUNCT
    THEN [file |-> CLEAR_FILE, dec |-> Decoded(CONTENT_A)]
    ELSE [file |-> CLEAR_FILE, dec |-> Decoded(CONTENT_B)]

\* Path.suffix
Suffix(p) ==
    LET i == LastDot(p)
    IN IF i > 1 /\ i < Len(p) THEN SubSeq(p, i, Len(p)) ELSE <<>>

\* lines 323-325: f.is_file() and f.suffix.lower() == ".bgl"
Eligible(files) == {f \in files : Lower(Suffix(f)) = EXT_BGL}

\* import_bgl as a function of the store, the pointer and the files.
\* fail_at as in the action import_bgl.
ImportOutcome(db, cur, files, path, file, dec, copy_ok, fail_at) ==
    CHOOSE outcome \in
        { IF plan.kind # "ok"
          THEN [db |-> db, cur |-> cur, files |-> plan.files, ok |-> FALSE,
                kind |-> plan.kind]
          ELSE IF fail_at > 0
          THEN [db |-> Rollback(db, TxAfter(db, plan, fail_at - 1)), cur |-> cur,
                files |-> plan.files, ok |-> FALSE, kind |-> "ImportFailed"]
          ELSE LET working == TxAfter(db, plan, TxLength(plan))
               IN [db |-> Commit(db, working),
                   cur |-> SelectIdByName(working, plan.dict_name),
                   files |-> plan.files, ok |-> TRUE, kind |-> "ok"]
          : plan \in {ImportPlan(path, files, file, dec, copy_ok)} } : TRUE

\* a test that looks for the path as the folder listing gave it, which is
\* never the absolute path the store records
AlreadyImportedRelative(abs_path, existing_paths) == FALSE

\* line 344: abs_path in existing_paths
AlreadyImported(abs_path, existing_paths) == abs_path \in existing_paths

ScanRecord(file, status) == [file |-> file, status |-> status]

\* the state of a scan after import_bgl on the file f ended as o
AfterImport(st, f, o) ==
    [db |-> o.db, cur |-> o.cur, files |-> o.files,
     results |-> Append(st.results, ScanRecord(f, IF o.ok THEN "success" ELSE "error")),
     pipeline |-> Append(st.pipeline, f)]

\* a loop that stops at the first file whose import fails
RECURSIVE ScanLoopStopsAtError(_, _, _, _)
ScanLoopStopsAtError(st, order, existing_paths, bad) ==
    IF order = <<>> THEN st
    ELSE LET f == Head(order)
         IN IF AlreadyImported(f, existing_paths)
            THEN ScanLoopStopsAtError(
                     [st EXCEPT !.results = Append(@, ScanRecord(f, "skip"))],
                     Tail(order), existing_paths, bad)
            ELSE CHOOSE end \in
                   { IF o.ok
                     THEN ScanLoopStopsAtError(AfterImport(st, f, o), Tail(order),
                                               existing_paths, bad)
                     ELSE AfterImport(st, f, o)
                     : o \in {ImportOutcome(st.db, st.cur, st.files, f, OnDisk(f).file,
                                            OnDisk(f).dec, TRUE,
                                            IF f = bad THEN 4 ELSE 0)} } : TRUE

\* lines 339-358: the loop over the files found, in the order iterdir gave
\* them. pipeline lists the files handed to import_bgl; the transaction of
\* the file bad meets a storage error in the middle of its batch.
RECURSIVE ScanLoop(_, _, _, _)
ScanLoop(st, order, existing_paths, bad) ==
    IF order = <<>> THEN st
    ELSE LET f == Head(order)
         IN IF AlreadyImported(f, existing_paths)
            THEN ScanLoop([st EXCEPT !.results = Append(@, ScanRecord(f, "skip"))],
                          Tail(order), existing_paths, bad)
            ELSE CHOOSE end \in
                   { ScanLoop(AfterImport(st, f, o), Tail(order), existing_paths, bad)
                     : o \in {ImportOutcome(st.db, st.cur, st.files, f, OnDisk(f).file,
                                            OnDisk(f).dec, TRUE,
                                            IF f = bad THEN 4 ELSE 0)} } : TRUE

DIR_SOURCES == "sources"    \* a directory: the files of fs are in it
DIR_MISSING == "missing"    \* no such path
DIR_FILE == "sources/a.txt" \* a path that exists and is a file

ScanDirs == {DIR_SOURCES, DIR_MISSING, DIR_FILE}

\* DictionaryManager.scan_and_import. order: the eligible files as iterdir
\* lists them; read_fails: the SELECT of the known source paths raises; bad:
\* as in ScanLoop. A call that leaves by an exception records raised.
scan_and_import(directory, order, read_fails, bad) ==
    LET files == Eligible(fs)
        existing_paths == {d.source_path : d \in dictionaries}
        Result(results, pipeline) ==
            [op |-> "scan_and_import", raised |-> FALSE, directory |-> directory,
             files |-> IF directory = DIR_SOURCES THEN files ELSE {},
             existing_paths |-> existing_paths,
             results |-> results, pipeline |-> pipeline, bad |-> bad]
        Raise(error) ==
            [op |-> "scan_and_import", raised |-> TRUE, directory |-> directory,
             error |-> error]
    IN /\ UNCHANGED clock
       /\ Sequential
       /\ IF directory = DIR_MISSING
          THEN /\ last' = Result(<<[status |-> "error"]>>, <<>>)
               /\ UNCHANGED <<store, current_dict_id, fs>>
          ELSE IF directory = DIR_FILE
          THEN /\ last' = Raise("NotADirectoryError")
               /\ UNCHANGED <<store, current_dict_id, fs>>
          ELSE IF files = {}
          THEN /\ last' = Result(<<[status |-> "info"]>>, <<>>)
               /\ UNCHANGED <<store, current_dict_id, fs>>
          ELSE IF read_fails
          THEN /\ last' = Raise("DatabaseError")
               /\ UNCHANGED <<store, current_dict_id, fs>>
          ELSE \E st \in {ScanLoop([db |-> Db, cur |-> current_dict_id, files |-> fs,
                                    results |-> <<>>, pipeline |-> <<>>],
                                   order, existing_paths, bad)} :
                  /\ SetDb(st.db)
                  /\ current_dict_id' = st.cur
                  /\ fs' = st.files
                  /\ last' = Result(st.results, st.pipeline)

\* the orders in which a set of files may be listed
Orders(S) ==
    {o \in [1..Cardinality(S) -> S] : \A i, j \in 1..Cardinality(S) : i # j => o[i] # o[j]}

\* folders the manager may be started over
ScanFolders ==
    { {P_PUNCT, P_UNDER, P_TXT}, {P_UPPER, P_ENC, P_TXT},
      {P_PUNCT, P_UPPER, P_ENC}, {P_TXT} }

\* a new database file, a manager just constructed, one of the folders
InitScan ==
    /\ dictionaries = {}
    /\ seq_dictionaries = 0
    /\ entries = <<>>
    /\ search_history = <<>>
    /\ favorites = <<>>
    /\ current_dict_id = NULL
    /\ fs \in ScanFolders
    /\ clock = 0
    /\ last = [op |-> "__init__"]
    /\ workers = [w \in Workers |-> Idle]
    /\ tx = NoTx

NO_FILE == <<>>

ScanCall ==
    \/ \E directory \in ScanDirs \ {DIR_SOURCES} :
          scan_and_import(directory, <<>>, FALSE, NO_FILE)
    \/ /\ Eligible(fs) = {}
       /\ scan_and_import(DIR_SOURCES, <<>>, FALSE, NO_FILE)
    \/ /\ Eligible(fs) # {}
       /\ scan_and_import(DIR_SOURCES, <<>>, TRUE, NO_FILE)
    \/ /\ Eligible(fs) # {}
       /\ seq_dictionaries + Cardinality(Eligible(fs)) <= MaxScanIds
       /\ \E order \in Orders(Eligible(fs)), bad \in Eligible(fs) \cup {NO_FILE} :
             scan_and_import(DIR_SOURCES, order, FALSE, bad)

\* one file of the folder ingested by a call of import_bgl
ScanImportCall ==
    \E path \in Eligible(fs) :
        import_bgl(path, OnDisk(path).file, OnDisk(path).dec, TRUE, 0)

NextScan ==
    \/ ScanCall
    \/ ScanImportCall
    \/ manager_init

SpecScan == InitScan /\ [][NextScan]_vars

-----------------------------------------------------------------------------
(* The sniffer on its own *)

FILLER == <<7, 7, 7>>

\* 30 bytes that hold no signature: what follows them lies across or beyond
\* the end of the 32 bytes read
LONG_FILLER == [i \in 1..(HEADER_LEN - 2) |-> 7]

HeaderChunks ==
    {SIG_CLEAR_A, SIG_CLEAR_B, SIG_BAB, SIG_BOM_LE, SIG_BOM_BE, <<66, 65>>, <<7>>,
     FILLER, LONG_FILLER} \cup SIG_REGIONAL

RECURSIVE HeadersOf(_)
HeadersOf(n) ==
    IF n = 0 THEN {<<>>}
    ELSE LET shorter == HeadersOf(n - 1)
         IN shorter \cup {h \o c : h \in shorter, c \in HeaderChunks}

\* the files the sniffer is tried on: every run of up to MaxChunks chunks,
\* and a file that cannot be opened
SniffedFiles ==
    {[readable |-> TRUE, bytes |-> h] : h \in HeadersOf(MaxChunks)}
        \cup {[readable |-> FALSE, bytes |-> <<>>]}

\* a manager over a new database file, about to sniff one of the files
InitSniff ==
    /\ dictionaries = {}
    /\ seq_dictionaries = 0
    /\ entries = <<>>
    /\ search_history = <<>>
    /\ favorites = <<>>
    /\ current_dict_id = NULL
    /\ fs = InitialFiles
    /\ clock = 0
    /\ last \in {[op |-> "open", file |-> file] : file \in SniffedFiles}
    /\ workers = [w \in Workers |-> Idle]
    /\ tx = NoTx

\* DictionaryManager._is_encrypted_bgl called on the file
sniff_call ==
    /\ last.op = "open"
    /\ last' = [op |-> "_is_encrypted_bgl", file |-> last.file,
                ret |-> is_encrypted_bgl(last.file)]
    /\ UNCHANGED <<store, current_dict_id, fs, clock>>
    /\ Sequential

NextSniff == sniff_call

SpecSniff == InitSniff /\ [][NextSniff]_vars

-----------------------------------------------------------------------------
(* Claims about ingestion and lookup, checked under Spec *)

WordCountOf(dicts, name) == {d.word_count : d \in {x \in dicts : x.name = name}}

\* C1: a source ingested successfully twice in a row from the same path with
\* the same decoded content leaves, after the second ingestion, the word
\* count recorded for its dictionary and the result of search for every query
\* and limit as they were after the first, and no more dictionaries.
C1_ReingestIdempotent ==
    [][ (last'.op = "import_bgl" /\ last'.ok /\ last'.again) =>
          /\ WordCountOf(dictionaries', DictName(last'.path))
               = WordCountOf(dictionaries, DictName(last'.path))
          /\ \A q \in Queries, limit \in Limits :
                SearchIn(entries', current_dict_id', q, limit)
                  = SearchIn(entries, current_dict_id, q, limit)
          /\ Cardinality(dictionaries') <= Cardinality(dictionaries) ]_vars

\* the second of two equal ingestions has ended and search finds entries
C1_Witness ==
    /\ last.op = "import_bgl" /\ last.ok /\ last.again
    /\ search(<<"a">>, MaxLimit) # <<>>

\* C2: for a query that is not blank after trimming, wildcard characters
\* included, and a dictionary active, every pair search returns has a word
\* whose lower-cased form starts with the lower-cased trimmed query, and the
\* pairs are in ascending order of word.
C2_SearchPrefixSorted ==
    \A q \in Queries, limit \in Limits :
        (current_dict_id # NULL /\ Strip(q) # <<>>) =>
            LET r == search(q, limit)
            IN /\ \A i \in 1..Len(r) : StartsWith(Lower(r[i][1]), Lower(Strip(q)))
               /\ \A i \in 1..Len(r), j \in 1..Len(r) :
                      i < j => TextLeq(r[i][1], r[j][1])

\* C3: while the active-dictionary pointer is unset, search and
\* get_suggestions return the empty sequence for every query and limit,
\* whatever the store holds.
C3_NoActiveNoResults ==
    current_dict_id = NULL =>
        \A q \in Queries, limit \in Limits :
            search(q, limit) = <<>> /\ get_suggestions(q, limit) = <<>>

\* a manager constructed over a store that holds a dictionary and its entries
C3_Witness ==
    /\ current_dict_id = NULL /\ last.op = "__init__"
    /\ dictionaries # {} /\ entries # <<>>

\* C6: an import_bgl call in which the sniffer answers Encrypted or
\* LikelyEncrypted fails as encryption detected, never calls the decoder, and
\* leaves the tables and the active pointer as they were.
C6_SnifferRejects ==
    [][ (last'.op = "import_bgl"
           /\ last'.sniffed \in {"ENCRYPTED", "LIKELY ENCRYPTED"}) =>
          /\ ~last'.ok
          /\ last'.kind = "EncryptionDetected"
          /\ last'.decoder_calls = 0
          /\ UNCHANGED <<store, current_dict_id>> ]_vars

\* a rejected call over a store that holds a dictionary, with one active
C6_Witness ==
    /\ last.op = "import_bgl" /\ last.sniffed = "ENCRYPTED"
    /\ dictionaries # {} /\ current_dict_id # NULL

\* C9: every row of entries is owned by a dictionary that exists, and the
\* rows are exactly the batches the existing dictionaries were ingested with.
C9_NoOrphanEntries ==
    /\ \A i \in 1..Len(entries) :
           \E d \in dictionaries : d.id = entries[i].dictionary_id
    /\ \A d \in dictionaries : Len(EntriesOf(entries, d.id)) = d.word_count

-----------------------------------------------------------------------------
(* Claims about the ledgers *)

\* C4: after any sequence of add_to_history calls, interleaved with other
\* calls, the ledger holds at most 100 rows, and every list get_history(n)
\* may return has at most min(n, 100) rows in order of non-increasing time.
C4_HistoryCapped ==
    /\ Len(search_history) <= HISTORY_LIMIT
    /\ \A n \in 0..(HISTORY_LIMIT + 1) :
           LimitCount(Len(search_history), n) <= Min(n, HISTORY_LIMIT)
    /\ \A n \in Limits :
           \A rows \in get_history(n) :
               /\ Len(rows) = LimitCount(Len(search_history), n)
               /\ \A i \in 1..(Len(rows) - 1) : rows[i][2] >= rows[i + 1][2]

\* the ledger is full and holds a row added after the cap was reached
C4_Witness ==
    /\ Len(search_history) = HISTORY_LIMIT
    /\ last.op = "add_to_history"
    /\ Cardinality(RunRows(search_history)) >= 2

RowsOf(favs, word, dict_id) ==
    {i \in 1..Len(favs) : favs[i].word = word /\ favs[i].dictionary_id = dict_id}

\* C5: with a dictionary active, add_to_favorites of a word that is not a
\* favorite under it returns true and creates exactly one row, and the same
\* call repeated at once returns false and leaves favorites as it is.
C5_AddFavoriteTwice ==
    [][ (last'.op = "add_to_favorites" /\ current_dict_id # NULL) =>
          /\ RowsOf(favorites, last'.word, current_dict_id) = {} =>
                /\ last'.ret
                /\ Len(favorites') = Len(favorites) + 1
                /\ SubSeq(favorites', 1, Len(favorites)) = favorites
                /\ Cardinality(RowsOf(favorites', last'.word, current_dict_id)) = 1
          /\ last'.again => (~last'.ret /\ favorites' = favorites) ]_vars

\* the second of two equal calls has returned false under an active dictionary
C5_Witness ==
    /\ last.op = "add_to_favorites" /\ last.again /\ ~last.ret
    /\ current_dict_id # NULL

\* C10: no two rows of favorites have the same word and the same dictionary
\* reference, whatever the active pointer was when they were added, the
\* unset pointer included.
C10_FavoritesUnique ==
    \A i \in 1..Len(favorites), j \in 1..Len(favorites) :
        (favorites[i].word = favorites[j].word
           /\ favorites[i].dictionary_id = favorites[j].dictionary_id) => i = j

-----------------------------------------------------------------------------
(* Claims about ingestion from several threads, checked under SpecConc *)

\* the pairs stored under a dictionary id, in insertion order
PairsOf(ents, dict_id) ==
    LET rows == EntriesOf(ents, dict_id)
    IN [i \in 1..Len(rows) |-> [word |-> rows[i].word, definition |-> rows[i].definition]]

\* every dictionary a listing shows has as many rows as its word count
C7_Visible ==
    \A r \in get_dictionaries : Len(EntriesOf(entries, r[1])) = r[3]

\* dictionaries and entries change only when a transaction that ran all its
\* statements commits, and then the dictionary appears with its whole batch
C7_OnlyWholeCommits ==
    (dictionaries' # dictionaries \/ entries' # entries) =>
        \E w \in Workers :
            /\ workers[w].pc = "tx" /\ workers'[w].pc = "committed"
            /\ \E d \in dictionaries' :
                  /\ d.id = workers'[w].dict_id
                  /\ d.name = workers[w].plan.dict_name
                  /\ d.word_count = Len(workers[w].plan.cleaned)
                  /\ PairsOf(entries', d.id) = workers[w].plan.cleaned

\* the step at which a call fails, and every step of the call before it,
\* leaves dictionaries, entries and the active pointer alone
C7_FailureChangesNothing ==
    \A w \in Workers :
        (workers'[w] # workers[w] /\ workers'[w].pc \notin {"committed", "idle"}
           /\ (workers'[w].pc = "returned" => ~workers'[w].ok)) =>
            UNCHANGED <<dictionaries, entries, current_dict_id>>

\* C7: ingestion is all-or-nothing. In every state, those between the
\* statements of a running ingestion included, a listed dictionary has all of
\* its cleaned entries; the tables change only at the commit of a whole batch;
\* and an ingestion that fails at any step, a storage error in the middle of
\* the batch included, leaves dictionaries, entries and the active pointer as
\* they were.
C7_AllOrNothing ==
    /\ []C7_Visible
    /\ [][C7_OnlyWholeCommits /\ C7_FailureChangesNothing]_vars

\* an ingestion has failed in the middle of its batch while the store holds
\* a dictionary another thread committed and the pointer is set
C7_Witness ==
    \E w \in Workers :
        /\ workers[w].pc = "returned" /\ ~workers[w].ok
        /\ workers[w].k > 3 /\ workers[w].k < 3 + Len(Clean(Retain(CONTENT_B)))
        /\ dictionaries # {} /\ current_dict_id # NULL

C8_NamesUnique ==
    \A d1 \in dictionaries, d2 \in dictionaries : d1.name = d2.name => d1 = d2

\* a commit leaves one dictionary of the ingested name and the dictionaries
\* of other names as they were
C8_CommitReplaces ==
    \A w \in Workers :
        (workers[w].pc = "tx" /\ workers'[w].pc = "committed") =>
            LET name == workers[w].plan.dict_name
            IN /\ Cardinality({d \in dictionaries' : d.name = name}) = 1
               /\ {d \in dictionaries' : d.name # name}
                    = {d \in dictionaries : d.name # name}

\* C8: in every reachable state no two dictionaries share a name, and an
\* ingestion of a name the store holds replaces that dictionary instead of
\* adding a second one, whether the ingestions run one after the other or
\* at the same time.
C8_UniqueNames ==
    /\ []C8_NamesUnique
    /\ [][C8_CommitReplaces]_vars

\* a second ingestion of a name has committed, while the other thread is in
\* a call, and the store holds one dictionary
C8_Witness ==
    \E w \in Workers, v \in Workers :
        /\ w # v
        /\ workers[w].pc = "committed"
        /\ workers[v].pc # "idle"
        /\ seq_dictionaries = 2
        /\ Cardinality(dictionaries) = 1

-----------------------------------------------------------------------------
(* Claims about favorites added from two threads, checked under SpecFavConc *)

\* C11: when two add_to_favorites calls for one word under one active
\* dictionary have both returned, and the word was not a favorite when the
\* first of them looked, exactly one of them has returned true and exactly
\* one row for the word and the dictionary exists.
C11_OneAddWins ==
    \A w \in Workers, v \in Workers :
        (/\ w # v
         /\ workers[w].pc = "fav_returned" /\ workers[v].pc = "fav_returned"
         /\ workers[w].word = workers[v].word
         /\ ~workers[w].exists) =>
            /\ workers[w].ret # workers[v].ret
            /\ Cardinality(RowsOf(favorites, workers[w].word, current_dict_id)) = 1

-----------------------------------------------------------------------------
(* Claims about the ledgers' references, checked under SpecFavorites *)

\* C12: every search-history row and every favorite row has a null
\* dictionary reference or the id of a row of dictionaries: when a dictionary
\* row goes away, by deletion or by replacement on re-ingestion of its name,
\* the rows that referenced it stay and their reference is null.
C12_LedgerReferencesLive ==
    \A rows \in {search_history, favorites} :
        \A i \in 1..Len(rows) :
            \/ rows[i].dictionary_id = NULL
            \/ \E d \in dictionaries : d.id = rows[i].dictionary_id

-----------------------------------------------------------------------------
(* Claims about the outcome of import_bgl, checked under Spec *)

\* the base name of an eligible path with '.', '-' and space replaced by '_'
ExpectedName(path) ==
    LET base == SubSeq(path, 1, Len(path) - 4)
    IN [i \in 1..Len(base) |-> IF base[i] \in {".", "-", " "} THEN "_" ELSE base[i]]

\* the decoder's pairs that survive cleaning: records that are not data, with
\* word and definition not blank
Surviving(rows) ==
    {i \in 1..Len(rows) : /\ ~rows[i].isData
                          /\ Strip(rows[i].word) # <<>>
                          /\ Strip(rows[i].defi) # <<>>}

\* a call on an existing .bgl path that the sniffer lets through, whose
\* decoding yields at least one surviving pair, passes every step before
\* the store
C13_ClearSourceAccepted ==
    \A path \in fs, file \in FileReads, dec \in Decodes :
        (/\ EndsWith(Lower(path), EXT_BGL)
         /\ ~is_encrypted_bgl(file).enc
         /\ ~dec.raises /\ ~dec.iter_raises
         /\ Surviving(dec.rows) # {}) =>
            ImportPlan(path, fs, file, dec, TRUE).kind = "ok"

\* a call that succeeds leaves a dictionary of the derived name with the
\* count of surviving pairs, not encrypted, and the pointer on it
C13_SuccessState ==
    (last'.op = "import_bgl" /\ last'.ok) =>
        \E d \in dictionaries' :
            /\ d.name = ExpectedName(last'.path)
            /\ d.word_count = Cardinality(Surviving(last'.dec.rows))
            /\ d.word_count >= 1
            /\ d.is_encrypted = FALSE
            /\ current_dict_id' = d.id

\* C13: when the sniffer classifies the source as Clear and m >= 1 decoded
\* pairs survive cleaning, import_bgl succeeds (the store accepting its
\* writes); afterwards a dictionary exists whose name is the base name with
\* every '.', '-' and space replaced by '_', whose word_count is m and whose
\* encrypted flag is false, and the active pointer identifies it.
C13_ImportSucceeds ==
    /\ []C13_ClearSourceAccepted
    /\ [][C13_SuccessState]_vars

\* the source "a- .b.bgl" has been ingested as dictionary a___b
C13_Witness ==
    /\ last.op = "import_bgl" /\ last.ok /\ last.path = P_PUNCT
    /\ \E d \in dictionaries :
          d.name = <<"a", "_", "_", "_", "b">> /\ d.id = current_dict_id

-----------------------------------------------------------------------------
(* Claims about scan_and_import, checked under SpecScan *)

\* the call that ends at this step scanned the folder and went through the
\* loop over its eligible files
ScanLooped(r) ==
    r.op = "scan_and_import" /\ ~r.raised /\ r.directory = DIR_SOURCES /\ r.files # {}

Range(seq) == {seq[i] : i \in 1..Len(seq)}

StatusOf(r, f) == {r.results[i].status : i \in {j \in 1..Len(r.results) : r.results[j].file = f}}

\* C14: scan_and_import reports a file as skip, and does not hand it to
\* import_bgl, exactly when its path is the recorded source path of a
\* dictionary of the store the scan started over; every other file is handed
\* to import_bgl; and a folder with one recorded path and one new eligible
\* file yields one skip record and one success or error record for the new
\* file.
C14_SkipIffRecorded ==
    [][ ScanLooped(last') =>
          LET recorded == {d.source_path : d \in dictionaries}
              r == last'
          IN /\ \A i \in 1..Len(r.results) :
                   /\ r.results[i].status = "skip" <=> r.results[i].file \in recorded
                   /\ r.results[i].file \in Range(r.pipeline)
                        <=> r.results[i].file \notin recorded
             /\ Range(r.pipeline) = r.files \ recorded
             /\ (Cardinality(r.files) = 2 /\ Cardinality(r.files \cap recorded) = 1) =>
                   /\ Len(r.results) = 2
                   /\ \E i, j \in 1..2 :
                         /\ i # j
                         /\ r.results[i].status = "skip"
                         /\ r.results[i].file \in recorded
                         /\ r.results[j].status \in {"success", "error"}
                         /\ r.results[j].file \notin recorded ]_vars

\* a scan of a folder of two eligible files, one of them recorded, has ended
C14_Witness ==
    /\ ScanLooped(last)
    /\ Cardinality(last.files) = 2
    /\ Cardinality(last.files \cap last.existing_paths) = 1
    /\ \E i \in 1..Len(last.results) : last.results[i].status = "skip"

\* C15: of two scans of the folder, one right after the other, the second
\* reports as skip every file the first ingested successfully and does not
\* hand it to import_bgl.
C15_SecondScanSkips ==
    [][ (ScanLooped(last) /\ ScanLooped(last')) =>
          \A i \in 1..Len(last.results) :
              last.results[i].status = "success" =>
                  /\ StatusOf(last', last.results[i].file) = {"skip"}
                  /\ last.results[i].file \notin Range(last'.pipeline) ]_vars

\* what became of the file f in the scan r: known before, failed in
\* import_bgl (a source the sniffer rejects, a storage error), or ingested
Outcome(r, f) ==
    IF f \in r.existing_paths THEN "skip"
    ELSE IF f = r.bad \/ is_encrypted_bgl(OnDisk(f).file).enc THEN "error"
    ELSE "success"

\* C16: a scan of a folder of n >= 1 eligible files returns n records, one
\* per eligible file, each skip, success or error as the file was known, was
\* ingested, or failed ingestion; a file that fails ingestion (a source the
\* sniffer rejects, a storage error in its batch) has an error record and the
\* files after it have their records too.
C16_OneRecordPerFile ==
    [][ ScanLooped(last') =>
          LET r == last'
          IN /\ Len(r.results) = Cardinality(r.files)
             /\ Cardinality(r.files) >= 1
             /\ \A f \in r.files : StatusOf(r, f) = {Outcome(r, f)}
             /\ \A i \in 1..Len(r.results) : r.results[i].file \in r.files ]_vars

\* a scan has ended in which a file failed ingestion and a file listed after
\* it was ingested
C16_Witness ==
    /\ ScanLooped(last)
    /\ \E i, j \in 1..Len(last.results) :
          /\ i < j
          /\ last.results[i].status = "error"
          /\ last.results[j].status = "success"

\* C20: every call of import_bgl and of scan_and_import returns a result
\* value; none leaves by an exception, whatever the path, the folder and the
\* condition of the store.
C20_NoExceptionEscapes ==
    /\ last.op = "scan_and_import" => ~last.raised
    /\ last.op = "import_bgl" => last.ok \in BOOLEAN

-----------------------------------------------------------------------------
(* Claims about the sniffer, checked under SpecSniff *)

\* the signature sig stands at position i of the bytes h
SigAt(h, sig, i) ==
    /\ i + Len(sig) - 1 <= Len(h)
    /\ \A k \in 1..Len(sig) : h[i + k - 1] = sig[k]

\* the signature sig lies within the first n bytes of h
SigWithin(h, sig, n) ==
    \E i \in 1..n : i + Len(sig) - 1 <= n /\ SigAt(h, sig, i)

\* the ordered rules on a file, first match wins
RuleClass(file) ==
    IF ~file.readable THEN "Clear"
    ELSE LET h == file.bytes
         IN IF SigAt(h, <<0, 1>>, 1) \/ SigAt(h, <<1, 0>>, 1) THEN "Clear"
            ELSE IF \/ SigWithin(h, <<66, 65, 66>>, 32)
                    \/ SigWithin(h, <<255, 254>>, 4)
                    \/ SigWithin(h, <<254, 255>>, 4)
                 THEN "Encrypted"
            ELSE IF \E sig \in SIG_REGIONAL : SigWithin(h, sig, 32)
                 THEN "LikelyEncrypted"
            ELSE "Clear"

SniffClass(ret) ==
    IF ~ret.enc THEN "Clear"
    ELSE IF ret.hint = "ENCRYPTED" THEN "Encrypted"
    ELSE "LikelyEncrypted"

\* C17: the sniffer's answer on a file is that of the ordered rules on its
\* first 32 bytes: a start of 00 01 or 01 00 is Clear whatever else occurs;
\* else the vendor marker anywhere or a byte-order mark within the first 4
\* bytes is Encrypted; else a regional-vendor fragment is LikelyEncrypted;
\* else Clear; and a file that cannot be read is Clear.
C17_SnifferRules ==
    last.op = "_is_encrypted_bgl" => SniffClass(last.ret) = RuleClass(last.file)

\* the sniffer has answered Clear on a standard header that holds the vendor
\* marker
C17_Witness ==
    /\ last.op = "_is_encrypted_bgl"
    /\ last.file.readable
    /\ last.file.bytes = SIG_CLEAR_A \o SIG_BAB
    /\ ~last.ret.enc

\* the kind of failure the first failing step of the ingestion gives: the
\* path, the extension, the sniffer, the decoder (by the keywords of its
\* message, in any letter case), the retained pairs, the trimmed pairs
FirstFailingStep(found, path, file, dec) ==
    IF ~found THEN "NotFound"
    ELSE IF ~EndsWith(Lower(path), EXT_BGL) THEN "WrongExtension"
    ELSE IF RuleClass(file) # "Clear" THEN "EncryptionDetected"
    ELSE IF dec.raises \/ dec.iter_raises
         THEN IF \E k \in ENCRYPTION_KEYWORDS : Contains(Lower(dec.msg), k)
              THEN "EncryptionDetected"
              ELSE "DecodeError"
    ELSE IF Retain(dec.rows) = <<>> THEN "EmptyResult"
    ELSE IF Clean(Retain(dec.rows)) = <<>> THEN "NoValidEntries"
    ELSE "ok"

\* the failure kind of a message of import_bgl: "DECRYPTION FAILED" is an
\* encryption failure, "Error reading entries: <message>" and
\* "BGL parsing error: <message>" are decoder errors carrying the message
FailureKind(kind) ==
    IF kind = "DecryptionFailed" THEN "EncryptionDetected"
    ELSE IF kind = "ReadError" THEN "DecodeError"
    ELSE kind

\* C18: a failure of import_bgl before the store is written has the kind of
\* the first failing step in the order path, extension, sniffer, decoder
\* error (an encryption failure when the message holds a keyword in any
\* letter case, a decoder error otherwise), no retained pair, no pair left
\* after trimming; and no later step has run: the sniffer only after the
\* path and extension tests, the decoder only after the sniffer accepted
C18_FirstFailingStep ==
    (last.op = "import_bgl" /\ ~last.ok /\ last.kind # "ImportFailed") =>
        LET step == FirstFailingStep(last.found, last.path, last.file, last.dec)
        IN /\ FailureKind(last.kind) = step
           /\ step \in {"NotFound", "WrongExtension"} =>
                  last.sniffed = "" /\ last.decoder_calls = 0
           /\ last.kind = "EncryptionDetected" => last.decoder_calls = 0

\* the part of C18 the code keeps: every failure whose decoder did not raise
\* while its entries were drained
C18_ExceptDrainErrors ==
    (last.op = "import_bgl" /\ ~last.ok /\ last.kind # "ReadError") =>
        C18_FirstFailingStep

\* C19: set_active_dictionary(id) returns true exactly when a dictionary
\* with that id is in the store, and then id is the active dictionary; for
\* an unknown id it returns false and leaves the pointer where it was; the
\* store is the same after either
C19_SetActive ==
    [][last'.op = "set_active_dictionary" =>
          /\ last'.ret <=> (\E d \in dictionaries : d.id = last'.dict_id)
          /\ last'.ret => current_dict_id' = last'.dict_id
          /\ ~last'.ret => current_dict_id' = current_dict_id
          /\ UNCHANGED store]_vars

\* an unknown id was refused while another dictionary stayed active
C19_Witness ==
    /\ last.op = "set_active_dictionary"
    /\ ~last.ret
    /\ last.dict_id # NULL
    /\ current_dict_id # NULL
    /\ current_dict_id # last.dict_id

\* a known id other than the newest one was selected
C19_WitnessSelected ==
    /\ last.op = "set_active_dictionary"
    /\ last.ret
    /\ current_dict_id = last.dict_id
    /\ \E d \in dictionaries : d.id > last.dict_id

\* the positions of the entries of dictionary dict_id whose lower-cased word
\* starts with the lower-cased trimmed query
PrefixMatches(ents, dict_id, q) ==
    {i \in 1..Len(ents) : /\ ents[i].dictionary_id = dict_id
                          /\ StartsWith(Lower(ents[i].word), Lower(Strip(q)))}

\* how often the pair occurs among the positions idx of ents
CountIn(ents, idx, pair) ==
    Cardinality({i \in idx : <<ents[i].word, ents[i].definition>> = pair})

\* how often the pair occurs in a result
CountOf(r, pair) == Cardinality({i \in 1..Len(r) : r[i] = pair})

\* r is the first `limit` of the matching entries in ascending word order:
\* sorted, capped, made of matching entries only, and every matching entry
\* left out has a word no smaller than the last one returned
FirstMatches(r, ents, idx, limit) ==
    LET pairs == {<<ents[i].word, ents[i].definition>> : i \in idx}
    IN /\ Len(r) = Min(limit, Cardinality(idx))
       /\ \A i \in 1..Len(r), j \in 1..Len(r) : i < j => TextLeq(r[i][1], r[j][1])
       /\ \A i \in 1..Len(r) : r[i] \in pairs
       /\ \A pair \in pairs : CountOf(r, pair) <= CountIn(ents, idx, pair)
       /\ \A pair \in pairs :
              (Len(r) = 0 \/ TextLess(pair[1], r[Len(r)][1])) =>
                  CountOf(r, pair) = Min(limit, CountIn(ents, idx, pair))

\* C21: with a dictionary active and a query that is not blank, search
\* returns exactly the first `limit` entries, in ascending word order, of
\* the entries of the active dictionary whose lower-cased word starts with
\* the lower-cased trimmed query: none omitted before the cap, none of
\* another dictionary or of a replaced copy, at most `limit` of them
C21_SearchFirstMatches ==
    \A q \in Queries, limit \in Limits :
        (current_dict_id # NULL /\ Strip(q) # <<>>) =>
            FirstMatches(search(q, limit), entries,
                         PrefixMatches(entries, current_dict_id, q), limit)

\* the part of C21 the code keeps: queries without the characters % and _
C21_ExceptWildcards ==
    \A q \in Queries, limit \in Limits :
        (/\ current_dict_id # NULL /\ Strip(q) # <<>>
         /\ \A i \in 1..Len(q) : q[i] \notin {"%", "_"}) =>
            FirstMatches(search(q, limit), entries,
                         PrefixMatches(entries, current_dict_id, q), limit)

\* C22: get_suggestions(prefix, limit) returns words without repetition, in
\* ascending order, at most `limit` of them, drawn from exactly the words
\* of the pairs search matches for the same prefix in the active
\* dictionary: the smallest `limit` of those words, each once
C22_SuggestionsOfSearch ==
    \A q \in Queries :
        \A found \in {search(q, Len(entries))} :
        \A words \in {{found[i][1] : i \in 1..Len(found)}} :
        \A limit \in Limits :
        \A r \in {get_suggestions(q, limit)} :
           /\ \A i \in 1..Len(r), j \in 1..Len(r) : i < j => TextLess(r[i], r[j])
           /\ Len(r) = Min(limit, Cardinality(words))
           /\ \A i \in 1..Len(r) : r[i] \in words
           /\ \A w \in words :
                  (\A i \in 1..Len(r) : r[i] # w) =>
                      Len(r) = limit /\ (Len(r) > 0 => TextLess(r[Len(r)], w))

\* get_suggestions answered with a word that two pairs of the active
\* dictionary share
C22_Witness ==
    /\ last.op = "get_suggestions"
    /\ current_dict_id # NULL
    /\ \E i \in 1..Len(last.ret), j \in 1..Len(entries), k \in 1..Len(entries) :
          /\ j < k
          /\ entries[j].dictionary_id = current_dict_id
          /\ entries[k].dictionary_id = current_dict_id
          /\ entries[j].word = last.ret[i]
          /\ entries[k].word = last.ret[i]

\* C23: search and get_suggestions are pure reads: whatever the input, the
\* dictionaries, the entries, the history ledger, the favorites ledger and
\* the active-dictionary pointer are the same after the call as before
C23_LookupsArePure ==
    [][last'.op \in {"search", "get_suggestions"} =>
          /\ dictionaries' = dictionaries
          /\ seq_dictionaries' = seq_dictionaries
          /\ entries' = entries
          /\ search_history' = search_history
          /\ favorites' = favorites
          /\ current_dict_id' = current_dict_id]_vars

\* a search that found pairs while both ledgers held rows
C23_Witness ==
    /\ last.op = "search"
    /\ Len(last.ret) > 0
    /\ search_history # <<>>
    /\ favorites # <<>>

\* the ledger `after` is the ledger `before`, less the rows a prune took
\* from it, with one new row at its end that carries the trimmed query and
\* the dictionary id
AppendedOne(before, after, query, dict_id) ==
    /\ after # <<>>
    /\ after[Len(after)].query = Strip(query)
    /\ after[Len(after)].dictionary_id = dict_id
    /\ \E i \in 0..Len(before) :
          SubSeq(after, 1, Len(after) - 1) =
              IF i = 0 THEN before ELSE Remove(before, i)

\* an add_to_history call leaves everything outside the history ledger alone
C24_Frame ==
    /\ dictionaries' = dictionaries
    /\ seq_dictionaries' = seq_dictionaries
    /\ entries' = entries
    /\ favorites' = favorites
    /\ current_dict_id' = current_dict_id

\* C24: add_to_history(query) with a query that is blank after trimming
\* leaves the history ledger unchanged; otherwise it appends exactly one
\* record carrying the query and the id of the dictionary active at the
\* time of the call (null when none is active); it changes nothing outside
\* the history ledger
C24_HistoryAppend ==
    [][last'.op = "add_to_history" =>
          /\ C24_Frame
          /\ IF Strip(last'.query) = <<>>
             THEN search_history' = search_history
             ELSE AppendedOne(search_history, search_history', last'.query,
                              current_dict_id)]_vars

\* the part of C24 the code keeps: calls on a ledger below the cap, and the
\* frame and the blank query on any ledger
C24_BelowCap ==
    [][last'.op = "add_to_history" =>
          /\ C24_Frame
          /\ Strip(last'.query) = <<>> => search_history' = search_history
          /\ (Strip(last'.query) # <<>> /\ Len(search_history) < HISTORY_LIMIT) =>
                 search_history' =
                     Append(search_history,
                            [query |-> Strip(last'.query),
                             dictionary_id |-> current_dict_id,
                             searched_at |-> clock'])]_vars

\* the last n rows of a ledger
LastRows(rows, n) == SubSeq(rows, Len(rows) - n + 1, Len(rows))

\* C25: after every add_to_history(q) with a q that is not blank, the
\* ledger holds exactly the min(k, 100) most recently recorded queries:
\* pruning removes only the oldest records, the record just added is
\* retained, and get_history(1) returns it, also when several records
\* carry the same timestamp
C25_NewestRetained ==
    [][(last'.op = "add_to_history" /\ Strip(last'.query) # <<>>) =>
          LET rec == [query |-> Strip(last'.query),
                      dictionary_id |-> current_dict_id,
                      searched_at |-> clock']
              all == Append(search_history, rec)
          IN /\ search_history' = LastRows(all, Min(Len(all), HISTORY_LIMIT))
             /\ get_history(1)' = {<< <<rec.query, rec.searched_at>> >>}]_vars

\* the part of C25 the code keeps: the record added at a time later than
\* every other row's is retained and is what get_history(1) returns
C25_WhenTimesDiffer ==
    [][(/\ last'.op = "add_to_history" /\ Strip(last'.query) # <<>>
        /\ \A i \in 1..Len(search_history) : search_history[i].searched_at < clock') =>
          /\ search_history' # <<>>
          /\ search_history'[Len(search_history')].query = Strip(last'.query)
          /\ get_history(1)' = {<< <<Strip(last'.query), clock'>> >>}]_vars

\* the favorites other than the rows of (word, dict_id), in ledger order
OtherRows(favs, word, dict_id) ==
    LET Test(r) == ~(r.word = word /\ r.dictionary_id = dict_id)
    IN SelectSeq(favs, Test)

\* C26: under an active dictionary D, after add_to_favorites(w, d)
\* returned true is_favorite(w) is true; remove_from_favorites(w) returns
\* true exactly when a (w, D) row exists and leaves is_favorite(w) false;
\* when no such row exists it returns false and changes nothing; the rows
\* of w under other dictionaries and of other words stay as they are; and
\* is_favorite(w) is true exactly when a (w, D) row exists
C26_FavoritesUnderDictionary ==
    [][current_dict_id # NULL =>
          /\ (last'.op = "add_to_favorites" /\ last'.ret) =>
                /\ FavoriteExists(favorites', last'.word, current_dict_id')
                /\ OtherRows(favorites', last'.word, current_dict_id)
                       = OtherRows(favorites, last'.word, current_dict_id)
          /\ last'.op = "remove_from_favorites" =>
                /\ last'.ret <=> RowsOf(favorites, last'.word, current_dict_id) # {}
                /\ ~FavoriteExists(favorites', last'.word, current_dict_id')
                /\ RowsOf(favorites', last'.word, current_dict_id) = {}
                /\ ~last'.ret => favorites' = favorites
                /\ OtherRows(favorites', last'.word, current_dict_id)
                       = OtherRows(favorites, last'.word, current_dict_id)
          /\ last'.op = "is_favorite" =>
                /\ last'.ret <=> RowsOf(favorites, last'.word, current_dict_id) # {}
                /\ favorites' = favorites]_vars

\* a favorite was removed under the active dictionary while the same word
\* stays a favorite under another dictionary
C26_Witness ==
    /\ last.op = "remove_from_favorites"
    /\ last.ret
    /\ current_dict_id # NULL
    /\ \E i \in 1..Len(favorites) :
          /\ favorites[i].word = last.word
          /\ favorites[i].dictionary_id \notin {NULL, current_dict_id}

\* C28: in every reachable state, every interleaving of two concurrent
\* ingestions of one derived name included, the active-dictionary pointer
\* is unset or the id of a dictionary that is in the store. Stated for the
\* states in which no ingestion is in progress, so that the time between a
\* call's commit and its assignment of the pointer is not counted.
C28_PointerLive ==
    (\A w \in Workers : workers[w].pc = "idle") =>
        \/ current_dict_id = NULL
        \/ \E d \in dictionaries : d.id = current_dict_id

\* C29: in every committed state, the word_count of every dictionary in the
\* store is the number of rows of entries whose dictionary_id is that
\* dictionary's id, after any sequence of ingestions and re-ingestions
C29_WordCountIsRowCount ==
    \A d \in dictionaries :
        d.word_count = Cardinality({i \in 1..Len(entries) :
                                       entries[i].dictionary_id = d.id})

\* a source was ingested again: its dictionary has a new id and the rows of
\* the replaced copy are still in entries
C29_Witness ==
    /\ last.op = "import_bgl" /\ last.ok
    /\ \E d \in dictionaries :
          /\ d.id = current_dict_id
          /\ d.word_count > 0
          /\ \E i \in 1..Len(entries) :
                \A e \in dictionaries : entries[i].dictionary_id # e.id

\* the pairs of the rows of entries that belong to dictionary dict_id
PairSet(ents, dict_id) ==
    {<<ents[i].word, ents[i].definition>> :
        i \in {j \in 1..Len(ents) : ents[j].dictionary_id = dict_id}}

\* C27: a search that runs while another thread selects a dictionary or
\* ingests returns results drawn entirely from one dictionary, the one the
\* pointer named when the call began or the one it names when the call
\* ends; it never mixes the entries of two dictionaries, and a call begun
\* with no dictionary active returns nothing
C27_SearchSeesOneDictionary ==
    [][(last'.op = "search" /\ last' # last) =>
          /\ last'.used \in {last'.guard, current_dict_id'}
          /\ \E p \in {last'.guard, current_dict_id'} :
                \A i \in 1..Len(last'.ret) : last'.ret[i] \in PairSet(entries', p)
          /\ \A i \in 1..Len(last'.ret), j \in 1..Len(last'.ret) :
                \E k \in 1..Len(entries'), l \in 1..Len(entries') :
                    /\ entries'[k].dictionary_id = entries'[l].dictionary_id
                    /\ last'.ret[i] = <<entries'[k].word, entries'[k].definition>>
                    /\ last'.ret[j] = <<entries'[l].word, entries'[l].definition>>
          /\ last'.guard = NULL => last'.ret = <<>>]_vars

\* a search found pairs after the pointer moved between its two reads
C27_Witness ==
    /\ last.op = "search"
    /\ Len(last.ret) > 0
    /\ last.guard # last.used

====
